---- MODULE Spec2Model ----
(***************************************************************************)
(* Model of the ring buffers of the repository:                            *)
(*   - LocalRb (src/rb/local.rs) with the Producer trait's default methods *)
(*     (src/traits/producer.rs): indices kept modulo 2 * capacity;         *)
(*   - RingBuffer (src/ring_buffer.rs): capacity + 1 slots, head and tail  *)
(*     kept modulo the storage length.                                     *)
(* A buffer is a record (the Rust `self`); a method is an operator from    *)
(* the buffer (and its arguments) to the buffer after the call and the     *)
(* value returned.  A slice of storage is the range of slots it covers.    *)
(***************************************************************************)
EXTENDS Integers, Sequences, FiniteSets, TLC

\* Largest capacity of a buffer.
MaxCap == 4
\* Largest number of items accepted over a buffer's life.
MaxPush == 9
\* Largest number of items offered by one push_slice / push_iter call.
MaxBatch == 4

\* Content of a slot that holds no initialized item (MaybeUninit::uninit);
\* items are the positive integers.
Uninit == 0

VARIABLES
    lrb,          \* the LocalRb
    rb,           \* the RingBuffer
    alive,        \* the buffers have not been torn down
    handles,      \* "none" | "rc" (split) | "ref" (split_ref)
    prodLive,     \* a Producer handle exists
    consLive,     \* a Consumer handle exists
    pushed,       \* items the LocalRb accepted, in order
    popped,       \* items the LocalRb's pops returned, in order
    destroyed,    \* items destroyed by the LocalRb's teardown, in order
    ret,          \* what the last LocalRb operation returned
    rbPushed,     \* the same four for the RingBuffer
    rbPopped,
    rbDestroyed,
    rbRet,
    probe,        \* a range handed to unsafe_slices, and the slices it gave
    threads       \* where the producer and the consumer thread stand

vars == <<lrb, rb, alive, handles, prodLive, consLive, pushed, popped,
          destroyed, ret, rbPushed, rbPopped, rbDestroyed, rbRet, probe, threads>>

Min(a, b) == IF a < b THEN a ELSE b

----------------------------------------------------------------------------
(* Slices of storage: core::ops::Range<usize> over the slots.              *)

Range(start, end) == [start |-> start, end |-> end]

\* Range::len(): 0 when end <= start.
slice_len(s) == IF s.end > s.start THEN s.end - s.start ELSE 0

\* The slots of a slice, first to last.
slice_slots(s) == [i \in 1..slice_len(s) |-> s.start + i - 1]

\* left.iter_mut().chain(right.iter_mut())
chain(left, right) == slice_slots(left) \o slice_slots(right)

\* slice[..n]
slice_to(s, n) == Range(s.start, s.start + n)

\* utils::write_slice(slice, elems): copies elems into the slots of slice.
write_slice(storage, s, elems) ==
    [i \in DOMAIN storage |->
        IF i >= s.start /\ i < s.start + slice_len(s) /\ i - s.start + 1 <= Len(elems)
        THEN elems[i - s.start + 1]
        ELSE storage[i]]

\* Storage of n uninitialized slots.
uninit_storage(n) == [i \in 0..(n - 1) |-> Uninit]

----------------------------------------------------------------------------
(* LocalRb: src/rb/local.rs                                                *)

End_new(index) == [index |-> index, held |-> FALSE]

LocalRb_from_raw_parts(storage, read, write) ==
    [storage |-> storage, read |-> End_new(read), write |-> End_new(write)]

\* rb_impl_init!: a new buffer over uninitialized storage.
LocalRb_new(n) == LocalRb_from_raw_parts(uninit_storage(n), 0, 0)

capacity(self) == Cardinality(DOMAIN self.storage)

read_index(self) == self.read.index

write_index(self) == self.write.index

read_is_held(self) == self.read.held

write_is_held(self) == self.write.held

\* A faulty variant: the write side's held flag is cleared with the store.
set_write_index_releases(self, value) ==
    [self EXCEPT !.write.index = value, !.write.held = FALSE]

set_write_index(self, value) == [self EXCEPT !.write.index = value]

set_read_index(self, value) == [self EXCEPT !.read.index = value]

hold_read(self, flag) == [self EXCEPT !.read.held = flag]

hold_write(self, flag) == [self EXCEPT !.write.held = flag]

\* utils::modulus: the extended index domain is twice the capacity.
modulus(self) == 2 * capacity(self)

\* utils::ranges: the storage sub-ranges covered by [start, end), split where
\* the range wraps past the end of storage.
ranges(n, start, end) ==
    LET head_quo == start \div n
        head_rem == start % n
        tail_quo == end \div n
        tail_rem == end % n
    IN  IF (head_quo + tail_quo) % 2 = 0
        THEN <<Range(head_rem, tail_rem), Range(0, 0)>>
        ELSE <<Range(head_rem, n), Range(0, tail_rem)>>

\* Shared::slice: the sub-slice of storage over a range of slots.
storage_slice(self, range) == range

\* A faulty variant: the two slices are returned in the wrong order.
unsafe_slices_swapped(self, start, end) ==
    LET r == ranges(capacity(self), start, end)
    IN  <<storage_slice(self, r[2]), storage_slice(self, r[1])>>

unsafe_slices(self, start, end) ==
    LET r == ranges(capacity(self), start, end)
    IN  <<storage_slice(self, r[1]), storage_slice(self, r[2])>>

----------------------------------------------------------------------------
(* Observer: derived values of the doubled-index scheme.                   *)

occupied_len(self) ==
    (modulus(self) + write_index(self) - read_index(self)) % modulus(self)

vacant_len(self) ==
    (capacity(self) + read_index(self) - write_index(self)) % modulus(self)

is_empty(self) == read_index(self) = write_index(self)

is_full(self) == vacant_len(self) = 0

----------------------------------------------------------------------------
(* What a call returns: Result / Option / a count, and for push_iter the   *)
(* iterator as the call leaves it.                                         *)

Returned(self, ok, val, rest) == [self |-> self, ok |-> ok, val |-> val, rest |-> rest]

\* MaybeUninit::write: initializes one slot.
slot_write(self, slot, elem) == [self EXCEPT !.storage[slot] = elem]

\* assume_init_read / drop_in_place: the item leaves the slot.
slot_take(self, slot) == [self EXCEPT !.storage[slot] = Uninit]

----------------------------------------------------------------------------
(* Producer: src/traits/producer.rs                                        *)

\* A faulty variant: the index is reduced modulo the capacity, not modulo the
\* extended domain.
advance_write_index_mod_capacity(self, count) ==
    set_write_index(self, (write_index(self) + count) % capacity(self))

\* A faulty variant: the write index is stored back as it was.
advance_write_index_stays(self, count) ==
    set_write_index(self, write_index(self))

\* A faulty variant: the sum is stored without the reduction.
advance_write_index_unreduced(self, count) ==
    set_write_index(self, write_index(self) + count)

advance_write_index(self, count) ==
    set_write_index(self, (write_index(self) + count) % modulus(self))

\* A faulty variant: the producer looks at its own side's flag.
is_closed_own_flag(self) == ~write_is_held(self)

is_closed(self) == ~read_is_held(self)

\* A faulty variant: the range ends at the read index, without the capacity.
vacant_slices_to_read(self) ==
    unsafe_slices(self, write_index(self), read_index(self))

vacant_slices(self) ==
    unsafe_slices(self, write_index(self), read_index(self) + capacity(self))

\* A faulty variant: the range starts at the read index.
vacant_slices_mut_from_read(self) ==
    unsafe_slices(self, read_index(self), read_index(self) + capacity(self))

vacant_slices_mut(self) ==
    unsafe_slices(self, write_index(self), read_index(self) + capacity(self))

\* A faulty variant: no check that the buffer is full.
try_push_unchecked(self, elem) ==
    LET place == vacant_slices_mut(self)[1].start
    IN  Returned(advance_write_index(slot_write(self, place, elem), 1), TRUE, 0, <<>>)

\* A faulty variant: a push to a buffer whose consumer is gone is rejected.
try_push_rejects_closed(self, elem) ==
    IF ~is_full(self) /\ ~is_closed(self)
    THEN LET place == vacant_slices_mut(self)[1].start
         IN  Returned(advance_write_index(slot_write(self, place, elem), 1), TRUE, 0, <<>>)
    ELSE Returned(self, FALSE, elem, <<>>)

try_push(self, elem) ==
    IF ~is_full(self)
    THEN LET place == vacant_slices_mut(self)[1].start
         IN  Returned(advance_write_index(slot_write(self, place, elem), 1), TRUE, 0, <<>>)
    ELSE Returned(self, FALSE, elem, <<>>)

\* A faulty variant: the loop runs over the iterator and asks for a place
\* after it took the item, so the item taken last finds no place.
RECURSIVE push_iter_loop_eager(_, _, _, _)
push_iter_loop_eager(self, places, iter, count) ==
    IF iter = <<>>
    THEN Returned(self, TRUE, count, iter)
    ELSE IF places = <<>>
         THEN Returned(self, TRUE, count, Tail(iter))
         ELSE push_iter_loop_eager(slot_write(self, Head(places), Head(iter)),
                                   Tail(places), Tail(iter), count + 1)

\* The loop of push_iter over the places still to visit: iter.next() is
\* called once per place visited, and the loop breaks at the first None.
RECURSIVE push_iter_loop(_, _, _, _)
push_iter_loop(self, places, iter, count) ==
    IF places = <<>>
    THEN Returned(self, TRUE, count, iter)
    ELSE IF iter = <<>>
         THEN Returned(self, TRUE, count, iter)
         ELSE push_iter_loop(slot_write(self, Head(places), Head(iter)),
                             Tail(places), Tail(iter), count + 1)

\* A faulty variant: every item is committed as soon as it is written.
push_iter_place_commits(self, place, elem) ==
    advance_write_index(slot_write(self, place, elem), 1)

\* One turn of the loop of push_iter: place.as_mut_ptr().write(elem).
push_iter_place(self, place, elem) == slot_write(self, place, elem)

push_iter(self, iter) ==
    LET slices == vacant_slices_mut(self)
        done == push_iter_loop(self, chain(slices[1], slices[2]), iter, 0)
    IN  Returned(advance_write_index(done.self, done.val), TRUE, done.val, done.rest)

\* A faulty variant: the right vacant slice is never used.
push_slice_left_only(self, elems) ==
    LET left == vacant_slices_mut(self)[1]
        count == Min(Len(elems), slice_len(left))
        st == write_slice(self.storage, slice_to(left, count), SubSeq(elems, 1, count))
    IN  Returned(advance_write_index([self EXCEPT !.storage = st], count), TRUE, count, <<>>)

push_slice(self, elems) ==
    LET slices == vacant_slices_mut(self)
        left == slices[1]
        right == slices[2]
        with(st) == [self EXCEPT !.storage = st]
        n == Len(elems)
    IN  IF n < slice_len(left)
        THEN LET st == write_slice(self.storage, slice_to(left, n), elems)
             IN  Returned(advance_write_index(with(st), n), TRUE, n, <<>>)
        ELSE LET left_elems == SubSeq(elems, 1, slice_len(left))
                 rest == SubSeq(elems, slice_len(left) + 1, n)
                 st1 == write_slice(self.storage, left, left_elems)
                 m == IF Len(rest) < slice_len(right) THEN Len(rest) ELSE slice_len(right)
                 st2 == IF Len(rest) < slice_len(right)
                        THEN write_slice(st1, slice_to(right, Len(rest)), rest)
                        ELSE write_slice(st1, right, SubSeq(rest, 1, slice_len(right)))
                 count == slice_len(left) + m
             IN  Returned(advance_write_index(with(st2), count), TRUE, count, <<>>)

\* std::io::Read::read(buf) of an external reader: it copies the bytes it
\* has into the front of buf and reports how many, or fails (having written
\* what it had); a reader that breaks its contract reports one byte too many.
Read_read(reader, storage, buf) ==
    LET n == Min(Len(reader.bytes), slice_len(buf))
    IN  [storage |-> write_slice(storage, slice_to(buf, n), SubSeq(reader.bytes, 1, n)),
         ok |-> ~reader.fail,
         n |-> IF reader.over THEN slice_len(buf) + 1 ELSE n]

\* What ret.val holds when a call panicked instead of returning.
Panicked == -1

\* A faulty variant: the index advances by the count asked for, not by the
\* count read.
read_from_advances_by_count(self, reader, count) ==
    LET left == vacant_slices_mut(self)[1]
        cnt == Min(IF count = <<>> THEN slice_len(left) ELSE count[1], slice_len(left))
        got == Read_read(reader, self.storage, slice_to(left, cnt))
        after == [self EXCEPT !.storage = got.storage]
    IN  IF ~got.ok
        THEN Returned(after, FALSE, 0, <<>>)
        ELSE IF ~(got.n <= cnt)
             THEN Returned(after, FALSE, Panicked, <<>>)
             ELSE Returned(advance_write_index(after, cnt), TRUE, got.n, <<>>)

\* count is None (<<>>) or Some(c) (<<c>>).
read_from(self, reader, count) ==
    LET left == vacant_slices_mut(self)[1]
        cnt == Min(IF count = <<>> THEN slice_len(left) ELSE count[1], slice_len(left))
        got == Read_read(reader, self.storage, slice_to(left, cnt))
        after == [self EXCEPT !.storage = got.storage]
    IN  IF ~got.ok
        THEN Returned(after, FALSE, 0, <<>>)
        ELSE IF ~(got.n <= cnt)
             THEN Returned(after, FALSE, Panicked, <<>>)
             ELSE Returned(advance_write_index(after, got.n), TRUE, got.n, <<>>)

\* What ret.val holds when io::Write::write gave Err(WouldBlock).
WouldBlock == -2

\* A faulty variant: no bytes taken is reported as would-block even when
\* no bytes were offered.
write_blocks_on_empty(self, buffer) ==
    LET pushed_ == push_slice(self, buffer)
    IN  IF pushed_.val = 0
        THEN Returned(pushed_.self, FALSE, WouldBlock, <<>>)
        ELSE Returned(pushed_.self, TRUE, pushed_.val, <<>>)

\* Producer<Item = u8>::write.
write(self, buffer) ==
    LET pushed_ == push_slice(self, buffer)
    IN  IF pushed_.val = 0 /\ buffer # <<>>
        THEN Returned(pushed_.self, FALSE, WouldBlock, <<>>)
        ELSE Returned(pushed_.self, TRUE, pushed_.val, <<>>)

\* A faulty variant: the partial write is reported as a success.
write_str_always_ok(self, s) ==
    LET pushed_ == push_slice(self, s)
    IN  Returned(pushed_.self, TRUE, 0, <<>>)

\* Producer<Item = u8>::write_str.
write_str(self, s) ==
    LET pushed_ == push_slice(self, s)
    IN  IF pushed_.val # Len(s)
        THEN Returned(pushed_.self, FALSE, 0, <<>>)
        ELSE Returned(pushed_.self, TRUE, 0, <<>>)

\* impl std::io::Write for LocalRb<u8>.
io_Write_write(self, buf) == write(self, buf)

io_Write_flush(self) == Returned(self, TRUE, 0, <<>>)

\* impl core::fmt::Write for LocalRb<u8>.
fmt_Write_write_str(self, s) == write_str(self, s)

----------------------------------------------------------------------------
(* Consumer: the mirror of Producer over the read index.                   *)

advance_read_index(self, count) ==
    set_read_index(self, (read_index(self) + count) % modulus(self))

occupied_slices(self) == unsafe_slices(self, read_index(self), write_index(self))

try_pop(self) ==
    IF ~is_empty(self)
    THEN LET place == occupied_slices(self)[1].start
         IN  Returned(advance_read_index(slot_take(self, place), 1), TRUE,
                      self.storage[place], <<>>)
    ELSE Returned(self, FALSE, 0, <<>>)

\* Consumer::clear: drops every occupied item, left slice then right slice,
\* and advances the read index past them.  `rest` lists the items dropped.
clear(self) ==
    LET slices == occupied_slices(self)
        places == chain(slices[1], slices[2])
        emptied == [self EXCEPT !.storage =
                       [i \in DOMAIN self.storage |->
                           IF \E j \in DOMAIN places : places[j] = i
                           THEN Uninit ELSE self.storage[i]]]
    IN  Returned(advance_read_index(emptied, Len(places)), TRUE, Len(places),
                 [j \in DOMAIN places |-> self.storage[places[j]]])

\* impl Drop for LocalRb
LocalRb_drop(self) == clear(self)

\* wrap::Prod / wrap::Cons: a handle holds its side's flag while it lives.
Prod_new(self) == hold_write(self, TRUE)

Cons_new(self) == hold_read(self, TRUE)

Prod_drop(self) == hold_write(self, FALSE)

Cons_drop(self) == hold_read(self, FALSE)

----------------------------------------------------------------------------
(* RingBuffer: src/ring_buffer.rs                                          *)

RingBuffer_from_raw_parts(container, h, t) == [data |-> container, head |-> h, tail |-> t]

\* A faulty variant: no slot is reserved.
RingBuffer_new_unreserved(n) == RingBuffer_from_raw_parts(uninit_storage(n), 0, 0)

RingBuffer_new(n) == RingBuffer_from_raw_parts(uninit_storage(n + 1), 0, 0)

\* ContainerStorage::len
data_len(self) == Cardinality(DOMAIN self.data)

RingBuffer_capacity(self) == data_len(self) - 1

\* A faulty variant: the test of is_full with head and tail exchanged.
RingBuffer_is_empty_as_full(self) == (self.head + 1) % data_len(self) = self.tail

RingBuffer_is_empty(self) == self.head = self.tail

\* A faulty variant: the successor of tail is not reduced.
RingBuffer_is_full_no_wrap(self) == self.tail + 1 = self.head

RingBuffer_is_full(self) == (self.tail + 1) % data_len(self) = self.head

RingBuffer_len(self) == (self.tail + data_len(self) - self.head) % data_len(self)

RingBuffer_remaining(self) == RingBuffer_capacity(self) - RingBuffer_len(self)

\* A faulty variant: head = tail is taken for the wrapped case.
RingBuffer_drop_slices_strict(self) ==
    IF self.head < self.tail
    THEN <<Range(self.head, self.tail), Range(0, 0)>>
    ELSE <<Range(self.head, data_len(self)), Range(0, self.tail)>>

\* The two ranges of slots that impl Drop for RingBuffer walks.
RingBuffer_drop_slices(self) ==
    IF self.head <= self.tail
    THEN <<Range(self.head, self.tail), Range(0, 0)>>
    ELSE <<Range(self.head, data_len(self)), Range(0, self.tail)>>

\* impl Drop for RingBuffer: reads (and so destroys) every item in the two
\* ranges.  `rest` lists the items destroyed.
RingBuffer_drop(self) ==
    LET slices == RingBuffer_drop_slices(self)
        places == chain(slices[1], slices[2])
    IN  Returned(self, TRUE, Len(places), [j \in DOMAIN places |-> self.data[places[j]]])

\* The handles of the reserved-slot buffer (crate::producer, crate::consumer).
ArcProducer_push(self, elem) ==
    IF ~RingBuffer_is_full(self)
    THEN Returned([self EXCEPT !.data[self.tail] = elem,
                               !.tail = (self.tail + 1) % data_len(self)],
                  TRUE, 0, <<>>)
    ELSE Returned(self, FALSE, elem, <<>>)

ArcConsumer_pop(self) ==
    IF ~RingBuffer_is_empty(self)
    THEN Returned([self EXCEPT !.data[self.head] = Uninit,
                               !.head = (self.head + 1) % data_len(self)],
                  TRUE, self.data[self.head], <<>>)
    ELSE Returned(self, FALSE, 0, <<>>)

\* A bulk push reduces to single pushes: it stops at the first rejected item.
RECURSIVE ArcProducer_push_all(_, _, _)
ArcProducer_push_all(self, elems, count) ==
    IF elems = <<>>
    THEN Returned(self, TRUE, count, elems)
    ELSE LET one == ArcProducer_push(self, Head(elems))
         IN  IF one.ok
             THEN ArcProducer_push_all(one.self, Tail(elems), count + 1)
             ELSE Returned(self, TRUE, count, elems)

----------------------------------------------------------------------------
(* The buffers in use: both are driven by the same calls.                  *)

\* What the last call was given (arg) and what it returned.
Ret(op, arg, r) == [op |-> op, arg |-> arg, ok |-> r.ok, val |-> r.val, rest |-> r.rest]

NoRet(op) == [op |-> op, arg |-> <<>>, ok |-> TRUE, val |-> 0, rest |-> <<>>]

NoProbe == [start |-> 0, end |-> 0, done |-> FALSE, out |-> <<Range(0, 0), Range(0, 0)>>]

NoThreads == [pcP |-> "idle", pcC |-> "idle", placeP |-> 0, placeC |-> 0,
              elemP |-> 0, elemC |-> 0,
              \* push_iter in progress: the iterator it was given, what is
              \* left of it, the places left to visit and those written,
              \* the count so far and the write index when it began
              argP |-> <<>>, iterP |-> <<>>, placesP |-> <<>>, doneP |-> <<>>,
              countP |-> 0, w0P |-> 0]

\* The next k items a caller offers: items never seen before.
Offer(k) == [i \in 1..k |-> Len(pushed) + i]

\* The most items one bulk call may offer.
Room == Min(MaxBatch, MaxPush - Len(pushed))

CanProduce == alive /\ (handles = "none" \/ prodLive)

CanConsume == alive /\ (handles = "none" \/ consLive)

Init ==
    /\ \E n \in 1..MaxCap : lrb = LocalRb_new(n) /\ rb = RingBuffer_new(n)
    /\ alive = TRUE
    /\ handles = "none"
    /\ prodLive = FALSE
    /\ consLive = FALSE
    /\ pushed = <<>>
    /\ popped = <<>>
    /\ destroyed = <<>>
    /\ ret = NoRet("new")
    /\ rbPushed = <<>>
    /\ rbPopped = <<>>
    /\ rbDestroyed = <<>>
    /\ rbRet = NoRet("new")
    /\ probe = NoProbe
    /\ threads = NoThreads

TryPush ==
    /\ CanProduce
    /\ Len(pushed) < MaxPush
    /\ LET elem == Offer(1)[1]
           l == try_push(lrb, elem)
           r == ArcProducer_push(rb, elem)
       IN  /\ lrb' = l.self
           /\ ret' = Ret("try_push", <<elem>>, l)
           /\ pushed' = IF l.ok THEN Append(pushed, elem) ELSE pushed
           /\ rb' = r.self
           /\ rbRet' = Ret("try_push", <<elem>>, r)
           /\ rbPushed' = IF r.ok THEN Append(rbPushed, elem) ELSE rbPushed
    /\ UNCHANGED <<probe, threads, alive, handles, prodLive, consLive, popped, destroyed,
                   rbPopped, rbDestroyed>>

PushSlice ==
    /\ CanProduce
    /\ \E k \in 0..Room :
         LET elems == Offer(k)
             l == push_slice(lrb, elems)
             r == ArcProducer_push_all(rb, elems, 0)
         IN  /\ lrb' = l.self
             /\ ret' = Ret("push_slice", elems, l)
             /\ pushed' = pushed \o SubSeq(elems, 1, l.val)
             /\ rb' = r.self
             /\ rbRet' = Ret("push_slice", elems, r)
             /\ rbPushed' = rbPushed \o SubSeq(elems, 1, r.val)
    /\ UNCHANGED <<probe, threads, alive, handles, prodLive, consLive, popped, destroyed,
                   rbPopped, rbDestroyed>>

PushIter ==
    /\ CanProduce
    /\ \E k \in 0..Room :
         LET iter == Offer(k)
             l == push_iter(lrb, iter)
             r == ArcProducer_push_all(rb, iter, 0)
         IN  /\ lrb' = l.self
             /\ ret' = Ret("push_iter", iter, l)
             /\ pushed' = pushed \o SubSeq(iter, 1, l.val)
             /\ rb' = r.self
             /\ rbRet' = Ret("push_iter", iter, r)
             /\ rbPushed' = rbPushed \o SubSeq(iter, 1, r.val)
    /\ UNCHANGED <<probe, threads, alive, handles, prodLive, consLive, popped, destroyed,
                   rbPopped, rbDestroyed>>

\* read_from with any count and any reader.  The bytes the LocalRb took are
\* pushed to the RingBuffer as well.
ReadFrom ==
    /\ CanProduce
    /\ \E count \in {<<>>} \cup {<<c>> : c \in 0..MaxBatch}, k \in 0..Room,
          fail \in BOOLEAN, over \in BOOLEAN :
         /\ ~(fail /\ over)
         /\ \E reader \in {[bytes |-> Offer(k), fail |-> fail, over |-> over]} :
            \E l \in {read_from(lrb, reader, count)} :
            \E taken \in {IF l.ok THEN SubSeq(reader.bytes, 1, l.val) ELSE <<>>} :
            \E r \in {ArcProducer_push_all(rb, taken, 0)} :
                /\ lrb' = l.self
                /\ ret' = Ret("read_from", reader.bytes, l) @@
                             [count |-> count, fail |-> fail, over |-> over]
                /\ pushed' = pushed \o taken
                /\ rb' = r.self
                /\ rbRet' = Ret("read_from", reader.bytes, r)
                /\ rbPushed' = rbPushed \o SubSeq(taken, 1, r.val)
    /\ UNCHANGED <<probe, threads, alive, handles, prodLive, consLive, popped, destroyed,
                   rbPopped, rbDestroyed>>

\* io::Write::write of any number of bytes.
Write ==
    /\ CanProduce
    /\ \E k \in 0..Room :
       \E buf \in {Offer(k)} :
       \E l \in {io_Write_write(lrb, buf)} :
       \E taken \in {IF l.ok THEN SubSeq(buf, 1, l.val) ELSE <<>>} :
       \E r \in {ArcProducer_push_all(rb, taken, 0)} :
           /\ lrb' = l.self
           /\ ret' = Ret("write", buf, l)
           /\ pushed' = pushed \o taken
           /\ rb' = r.self
           /\ rbRet' = Ret("write", buf, r)
           /\ rbPushed' = rbPushed \o SubSeq(taken, 1, r.val)
    /\ UNCHANGED <<probe, threads, alive, handles, prodLive, consLive, popped, destroyed,
                   rbPopped, rbDestroyed>>

Flush ==
    /\ CanProduce
    /\ \E l \in {io_Write_flush(lrb)} :
           /\ lrb' = l.self
           /\ ret' = Ret("flush", <<>>, l)
           /\ rbRet' = NoRet("flush")
    /\ UNCHANGED <<rb, pushed, rbPushed, probe, threads, alive, handles, prodLive, consLive,
                   popped, destroyed, rbPopped, rbDestroyed>>

\* fmt::Write::write_str of a string of any length.  What the LocalRb
\* holds after the call that it did not hold before is pushed to the
\* RingBuffer as well.
WriteStr ==
    /\ CanProduce
    /\ \E k \in 0..Room :
       \E str \in {Offer(k)} :
       \E l \in {fmt_Write_write_str(lrb, str)} :
       \E taken \in {SubSeq(str, 1, occupied_len(l.self) - occupied_len(lrb))} :
       \E r \in {ArcProducer_push_all(rb, taken, 0)} :
           /\ lrb' = l.self
           /\ ret' = Ret("write_str", str, l)
           /\ pushed' = pushed \o taken
           /\ rb' = r.self
           /\ rbRet' = Ret("write_str", str, r)
           /\ rbPushed' = rbPushed \o SubSeq(taken, 1, r.val)
    /\ UNCHANGED <<probe, threads, alive, handles, prodLive, consLive, popped, destroyed,
                   rbPopped, rbDestroyed>>

TryPop ==
    /\ CanConsume
    /\ LET l == try_pop(lrb)
           r == ArcConsumer_pop(rb)
       IN  /\ lrb' = l.self
           /\ ret' = Ret("try_pop", <<>>, l)
           /\ popped' = IF l.ok THEN Append(popped, l.val) ELSE popped
           /\ rb' = r.self
           /\ rbRet' = Ret("try_pop", <<>>, r)
           /\ rbPopped' = IF r.ok THEN Append(rbPopped, r.val) ELSE rbPopped
    /\ UNCHANGED <<probe, threads, alive, handles, prodLive, consLive, pushed, destroyed,
                   rbPushed, rbDestroyed>>

\* Both buffers are torn down: impl Drop for LocalRb, impl Drop for RingBuffer.
Teardown(self) ==
    LET l == LocalRb_drop(self)
        r == RingBuffer_drop(rb)
    IN  /\ lrb' = l.self
        /\ destroyed' = destroyed \o l.rest
        /\ rb' = r.self
        /\ rbDestroyed' = rbDestroyed \o r.rest
        /\ alive' = FALSE

\* split(): the buffer moves into an Rc shared by a Prod and a Cons.
Split ==
    /\ alive /\ handles = "none"
    /\ lrb' = Cons_new(Prod_new(lrb))
    /\ handles' = "rc"
    /\ prodLive' = TRUE
    /\ consLive' = TRUE
    /\ ret' = NoRet("split")
    /\ rbRet' = NoRet("split")
    /\ UNCHANGED <<probe, threads, rb, alive, pushed, popped, destroyed, rbPushed, rbPopped, rbDestroyed>>

\* split_ref(): a Prod and a Cons borrow the buffer.
SplitRef ==
    /\ alive /\ handles = "none"
    /\ lrb' = Cons_new(Prod_new(lrb))
    /\ handles' = "ref"
    /\ prodLive' = TRUE
    /\ consLive' = TRUE
    /\ ret' = NoRet("split_ref")
    /\ rbRet' = NoRet("split_ref")
    /\ UNCHANGED <<probe, threads, rb, alive, pushed, popped, destroyed, rbPushed, rbPopped, rbDestroyed>>

\* The Producer handle is dropped; the last Rc handle tears the buffers
\* down, the last borrowing handle gives the buffer back to its owner.
DropProd ==
    /\ alive /\ prodLive
    /\ prodLive' = FALSE
    /\ ret' = NoRet("drop_prod")
    /\ rbRet' = NoRet("drop_prod")
    /\ UNCHANGED <<probe, threads, consLive, pushed, popped, rbPushed, rbPopped>>
    /\ IF ~consLive /\ handles = "rc"
       THEN Teardown(Prod_drop(lrb)) /\ UNCHANGED handles
       ELSE /\ lrb' = Prod_drop(lrb)
            /\ handles' = IF consLive THEN handles ELSE "none"
            /\ UNCHANGED <<rb, alive, destroyed, rbDestroyed>>

DropCons ==
    /\ alive /\ consLive
    /\ consLive' = FALSE
    /\ ret' = NoRet("drop_cons")
    /\ rbRet' = NoRet("drop_cons")
    /\ UNCHANGED <<probe, threads, prodLive, pushed, popped, rbPushed, rbPopped>>
    /\ IF ~prodLive /\ handles = "rc"
       THEN Teardown(Cons_drop(lrb)) /\ UNCHANGED handles
       ELSE /\ lrb' = Cons_drop(lrb)
            /\ handles' = IF prodLive THEN handles ELSE "none"
            /\ UNCHANGED <<rb, alive, destroyed, rbDestroyed>>

\* The owner drops a buffer that no handle refers to.
DropRb ==
    /\ alive /\ handles = "none"
    /\ Teardown(lrb)
    /\ ret' = NoRet("drop")
    /\ rbRet' = NoRet("drop")
    /\ UNCHANGED <<probe, threads, handles, prodLive, consLive, pushed, popped, rbPushed, rbPopped>>

Next ==
    \/ TryPush
    \/ PushSlice
    \/ PushIter
    \/ TryPop
    \/ Split
    \/ SplitRef
    \/ DropProd
    \/ DropCons
    \/ DropRb

Spec == Init /\ [][Next]_vars

----------------------------------------------------------------------------
(* The byte-stream adapters of a producer of bytes, with pops to make room. *)

NextIo ==
    \/ ReadFrom
    \/ TryPop

SpecIo == Init /\ [][NextIo]_vars

NextWrite ==
    \/ Write
    \/ Flush
    \/ WriteStr
    \/ TryPop

SpecWrite == Init /\ [][NextWrite]_vars

----------------------------------------------------------------------------
(* The poll-only protocol: a producer that calls try_push again and again  *)
(* and a consumer that calls try_pop again and again, each of them         *)
(* scheduled again and again.                                              *)

NextPoll ==
    \/ TryPush
    \/ TryPop

SpecPoll == Init /\ [][NextPoll]_vars /\ WF_vars(TryPush) /\ WF_vars(TryPop)

----------------------------------------------------------------------------
(* unsafe_slices on its own: a buffer of any capacity and any range of the *)
(* index domain, then the call.                                            *)

InitSlices ==
    /\ \E n \in 1..MaxCap :
         /\ lrb = LocalRb_new(n)
         /\ rb = RingBuffer_new(n)
         /\ \E start \in 0..(2 * n - 1), end \in 0..(3 * n) :
              probe = [NoProbe EXCEPT !.start = start, !.end = end]
    /\ alive = TRUE
    /\ handles = "none"
    /\ prodLive = FALSE
    /\ consLive = FALSE
    /\ pushed = <<>>
    /\ popped = <<>>
    /\ destroyed = <<>>
    /\ ret = NoRet("new")
    /\ rbPushed = <<>>
    /\ rbPopped = <<>>
    /\ rbDestroyed = <<>>
    /\ rbRet = NoRet("new")
    /\ threads = NoThreads

Project ==
    /\ ~probe.done
    /\ probe' = [probe EXCEPT !.done = TRUE,
                              !.out = unsafe_slices(lrb, probe.start, probe.end)]
    /\ UNCHANGED <<lrb, rb, alive, handles, prodLive, consLive, pushed, popped,
                   destroyed, ret, rbPushed, rbPopped, rbDestroyed, rbRet, threads>>

NextSlices == Project

SpecSlices == InitSlices /\ [][NextSlices]_vars

----------------------------------------------------------------------------
(* One producer thread and one consumer thread on a buffer whose indices   *)
(* are atomic.  A call is a sequence of steps, each with at most one load  *)
(* of the other side's index:                                              *)
(*   try_push: is_full(); vacant_slices_mut(); write(elem);                *)
(*             advance_write_index(1)                                      *)
(*   try_pop:  is_empty(); occupied_slices(); read; advance_read_index(1)  *)

InitThreads ==
    /\ \E n \in 1..MaxCap :
         /\ lrb = Cons_new(Prod_new(LocalRb_new(n)))
         /\ rb = RingBuffer_new(n)
    /\ alive = TRUE
    /\ handles = "rc"
    /\ prodLive = TRUE
    /\ consLive = TRUE
    /\ pushed = <<>>
    /\ popped = <<>>
    /\ destroyed = <<>>
    /\ ret = NoRet("new")
    /\ rbPushed = <<>>
    /\ rbPopped = <<>>
    /\ rbDestroyed = <<>>
    /\ rbRet = NoRet("new")
    /\ probe = NoProbe
    /\ threads = NoThreads

ThreadsFrame ==
    UNCHANGED <<rb, alive, handles, prodLive, consLive, destroyed,
                rbPushed, rbPopped, rbDestroyed, rbRet, probe>>

\* try_push, line 57: the test of is_full().
ProdIsFull ==
    /\ threads.pcP = "idle"
    /\ Len(pushed) < MaxPush
    /\ LET elem == Offer(1)[1]
       IN  IF ~is_full(lrb)
           THEN /\ threads' = [threads EXCEPT !.pcP = "slices", !.elemP = elem]
                /\ UNCHANGED ret
           ELSE /\ ret' = Ret("try_push", <<elem>>, Returned(lrb, FALSE, elem, <<>>))
                /\ UNCHANGED threads
    /\ UNCHANGED <<lrb, pushed, popped>>
    /\ ThreadsFrame

\* try_push, line 59: vacant_slices_mut().0.get_unchecked_mut(0).
ProdSlices ==
    /\ threads.pcP = "slices"
    /\ threads' = [threads EXCEPT !.pcP = "write",
                                  !.placeP = vacant_slices_mut(lrb)[1].start]
    /\ UNCHANGED <<lrb, pushed, popped, ret>>
    /\ ThreadsFrame

\* try_push, line 59: write(elem).
ProdWrite ==
    /\ threads.pcP = "write"
    /\ lrb' = slot_write(lrb, threads.placeP, threads.elemP)
    /\ threads' = [threads EXCEPT !.pcP = "advance"]
    /\ UNCHANGED <<pushed, popped, ret>>
    /\ ThreadsFrame

\* try_push, line 60: advance_write_index(1), then Ok(()).
ProdAdvance ==
    /\ threads.pcP = "advance"
    /\ lrb' = advance_write_index(lrb, 1)
    /\ pushed' = Append(pushed, threads.elemP)
    /\ ret' = Ret("try_push", <<threads.elemP>>, Returned(lrb, TRUE, 0, <<>>))
    /\ threads' = [threads EXCEPT !.pcP = "idle"]
    /\ UNCHANGED popped
    /\ ThreadsFrame

\* try_pop: the test of is_empty().
ConsIsEmpty ==
    /\ threads.pcC = "idle"
    /\ IF ~is_empty(lrb)
       THEN threads' = [threads EXCEPT !.pcC = "slices"]
       ELSE threads' = [threads EXCEPT !.elemC = 0]
    /\ UNCHANGED <<lrb, pushed, popped, ret>>
    /\ ThreadsFrame

\* try_pop: occupied_slices().0.get_unchecked(0).
ConsSlices ==
    /\ threads.pcC = "slices"
    /\ threads' = [threads EXCEPT !.pcC = "read",
                                  !.placeC = occupied_slices(lrb)[1].start]
    /\ UNCHANGED <<lrb, pushed, popped, ret>>
    /\ ThreadsFrame

\* try_pop: assume_init_read().
ConsRead ==
    /\ threads.pcC = "read"
    /\ threads' = [threads EXCEPT !.pcC = "advance",
                                  !.elemC = lrb.storage[threads.placeC]]
    /\ lrb' = slot_take(lrb, threads.placeC)
    /\ UNCHANGED <<pushed, popped, ret>>
    /\ ThreadsFrame

\* try_pop: advance_read_index(1), then Some(elem).
ConsAdvance ==
    /\ threads.pcC = "advance"
    /\ lrb' = advance_read_index(lrb, 1)
    /\ popped' = Append(popped, threads.elemC)
    /\ threads' = [threads EXCEPT !.pcC = "idle"]
    /\ UNCHANGED <<pushed, ret>>
    /\ ThreadsFrame

\* push_iter, line 76: vacant_slices_mut(), count = 0.
IterSlices ==
    /\ threads.pcP = "idle"
    /\ \E k \in 0..Room :
         LET slices == vacant_slices_mut(lrb)
         IN  threads' = [threads EXCEPT !.pcP = "iter",
                                        !.argP = Offer(k),
                                        !.iterP = Offer(k),
                                        !.placesP = chain(slices[1], slices[2]),
                                        !.doneP = <<>>,
                                        !.countP = 0,
                                        !.w0P = write_index(lrb)]
    /\ UNCHANGED <<lrb, pushed, popped, ret>>
    /\ ThreadsFrame

\* push_iter, lines 78-84: one turn of the loop; it ends when the places or
\* the iterator are exhausted.
IterPlace ==
    /\ threads.pcP = "iter"
    /\ IF threads.placesP = <<>> \/ threads.iterP = <<>>
       THEN /\ threads' = [threads EXCEPT !.pcP = "iter_advance"]
            /\ UNCHANGED lrb
       ELSE /\ lrb' = push_iter_place(lrb, Head(threads.placesP), Head(threads.iterP))
            /\ threads' = [threads EXCEPT !.placesP = Tail(threads.placesP),
                                           !.iterP = Tail(threads.iterP),
                                           !.doneP = Append(threads.doneP, Head(threads.placesP)),
                                           !.countP = threads.countP + 1]
    /\ UNCHANGED <<pushed, popped, ret>>
    /\ ThreadsFrame

\* push_iter, lines 85-86: advance_write_index(count), then count.
IterAdvance ==
    /\ threads.pcP = "iter_advance"
    /\ lrb' = advance_write_index(lrb, threads.countP)
    /\ pushed' = pushed \o SubSeq(threads.argP, 1, threads.countP)
    /\ ret' = Ret("push_iter", threads.argP,
                  Returned(lrb, TRUE, threads.countP, threads.iterP))
    /\ threads' = [threads EXCEPT !.pcP = "idle", !.argP = <<>>, !.iterP = <<>>,
                                   !.placesP = <<>>, !.doneP = <<>>,
                                   !.countP = 0, !.w0P = 0]
    /\ UNCHANGED popped
    /\ ThreadsFrame

NextThreads ==
    \/ IterSlices
    \/ IterPlace
    \/ IterAdvance
    \/ ProdIsFull
    \/ ProdSlices
    \/ ProdWrite
    \/ ProdAdvance
    \/ ConsIsEmpty
    \/ ConsSlices
    \/ ConsRead
    \/ ConsAdvance

SpecThreads == InitThreads /\ [][NextThreads]_vars

----------------------------------------------------------------------------
TypeOK ==
    /\ capacity(lrb) \in 1..MaxCap
    /\ read_index(lrb) \in 0..(modulus(lrb) - 1)
    /\ write_index(lrb) \in 0..(modulus(lrb) - 1)
    /\ Len(pushed) <= MaxPush

----------------------------------------------------------------------------
(* Properties of the buffers in sequential use.                            *)

\* Items accepted and not yet popped.
Net == Len(pushed) - Len(popped)

RbNet == Len(rbPushed) - Len(rbPopped)

\* C1: the pops return, in order, a prefix of the items the pushes accepted
\* (nothing lost, duplicated or reordered); a pop finds nothing only when
\* every accepted item has been popped.
C1_Fifo ==
    /\ Len(popped) <= Len(pushed)
    /\ popped = SubSeq(pushed, 1, Len(popped))
    /\ (ret.op = "try_pop" /\ ~ret.ok) => popped = pushed

\* A pop returned an item while the stored items straddle the end of storage
\* and the write index has wrapped in the doubled domain.
C1_WitnessWrapped ==
    /\ ret.op = "try_pop" /\ ret.ok
    /\ capacity(lrb) >= 3
    /\ Len(popped) > capacity(lrb)
    /\ write_index(lrb) < read_index(lrb)
    /\ slice_len(occupied_slices(lrb)[2]) > 0

\* C3: the observers agree with each other in every reachable state, and a
\* new buffer is empty, not full, with all its capacity remaining.
C3_ObserversConsistent ==
    /\ LET len == RingBuffer_len(rb)
           n == RingBuffer_capacity(rb)
       IN  /\ 0 <= len /\ len <= n
           /\ len + RingBuffer_remaining(rb) = n
           /\ RingBuffer_is_empty(rb) <=> (len = 0)
           /\ RingBuffer_is_full(rb) <=> (len = n)
           /\ rbRet.op = "new" =>
                 /\ len = 0 /\ RingBuffer_is_empty(rb) /\ ~RingBuffer_is_full(rb)
                 /\ RingBuffer_remaining(rb) = n /\ n >= 1
    /\ LET len == occupied_len(lrb)
           n == capacity(lrb)
       IN  /\ 0 <= len /\ len <= n
           /\ len + vacant_len(lrb) = n
           /\ is_empty(lrb) <=> (len = 0)
           /\ is_full(lrb) <=> (len = n)
           /\ ret.op = "new" =>
                 /\ len = 0 /\ is_empty(lrb) /\ ~is_full(lrb)
                 /\ vacant_len(lrb) = n /\ n >= 1

\* Both buffers are full after pushes and pops, with the items wrapped.
C3_WitnessFullWrapped ==
    /\ alive
    /\ RingBuffer_is_full(rb) /\ rb.tail < rb.head
    /\ is_full(lrb) /\ write_index(lrb) < read_index(lrb)
    /\ RingBuffer_capacity(rb) >= 2

\* C4: with N net pushes the buffer is full and not empty, with none it is
\* empty and not full; try_push on the full buffer gives the item back in Err
\* and leaves indices and contents as they were.
C4_FullRejects ==
    /\ [](alive =>
            /\ Net = capacity(lrb) => is_full(lrb) /\ ~is_empty(lrb)
            /\ Net = 0 => is_empty(lrb) /\ ~is_full(lrb)
            /\ RbNet = RingBuffer_capacity(rb) => RingBuffer_is_full(rb) /\ ~RingBuffer_is_empty(rb)
            /\ RbNet = 0 => RingBuffer_is_empty(rb) /\ ~RingBuffer_is_full(rb))
    /\ [][(ret'.op = "try_push" /\ Net = capacity(lrb)) =>
            /\ ~ret'.ok /\ ret'.val = ret'.arg[1]
            /\ lrb' = lrb /\ pushed' = pushed
            /\ occupied_len(lrb') = occupied_len(lrb)]_vars

\* A full buffer whose items wrap has just rejected an item.
C4_WitnessRejected ==
    /\ ret.op = "try_push" /\ ~ret.ok
    /\ Net = capacity(lrb) /\ capacity(lrb) >= 2
    /\ Len(popped) > 0
    /\ read_index(lrb) % capacity(lrb) = write_index(lrb) % capacity(lrb)

\* C5: a pop from an empty buffer (read = write) reports that nothing is
\* available and changes no index, no held flag and no slot, so repeating it
\* gives the same again.
C5_EmptyPopIsNoop ==
    [][(ret'.op = "try_pop" /\ lrb.read.index = lrb.write.index /\ rb.head = rb.tail) =>
            /\ ret' = [op |-> "try_pop", arg |-> <<>>, ok |-> FALSE, val |-> 0, rest |-> <<>>]
            /\ rbRet' = ret'
            /\ lrb' = lrb /\ rb' = rb
            /\ popped' = popped /\ rbPopped' = rbPopped]_vars

\* A buffer that was used and is empty again has just been popped in vain.
C5_WitnessEmptyPop ==
    /\ ret.op = "try_pop" /\ ~ret.ok
    /\ lrb.read.index = lrb.write.index /\ lrb.read.index > 0
    /\ rb.head = rb.tail /\ rb.head > 0
    /\ Len(popped) > 0

\* C6: teardown destroys the items accepted and not popped, once each and
\* nothing else, so every accepted item is destroyed exactly once.
C6_TeardownDropsOccupiedOnce ==
    ~alive =>
        /\ rbDestroyed = SubSeq(rbPushed, Len(rbPopped) + 1, Len(rbPushed))
        /\ destroyed = SubSeq(pushed, Len(popped) + 1, Len(pushed))

\* Torn down with items left that wrapped past the end of storage.
C6_WitnessWrappedTeardown ==
    /\ ~alive
    /\ rb.head > rb.tail /\ rb.tail > 0
    /\ Len(rbPopped) > 0 /\ Len(rbDestroyed) >= 2
    /\ Len(destroyed) >= 2

\* C7: while a Producer handle lives, is_closed() is false as long as the
\* Consumer handle lives and true once it is dropped, and it stays true; it
\* is the negation of the read side's held flag.
C7_ClosedIffConsumerDropped ==
    /\ [](prodLive => (is_closed(lrb) <=> ~consLive))
    /\ [](is_closed(lrb) <=> ~lrb.read.held)
    /\ [][(prodLive /\ prodLive' /\ is_closed(lrb)) => is_closed(lrb')]_vars
    /\ [][(prodLive /\ consLive /\ ~consLive') =>
            (is_closed(lrb') /\ pushed' = pushed /\ popped' = popped)]_vars

\* The Consumer handle has just been dropped and the Producer sees it.
C7_WitnessClosed ==
    /\ ret.op = "drop_cons" /\ prodLive /\ ~consLive
    /\ is_closed(lrb)

\* C9: push_slice returns min(items.len(), remaining()), stores that many
\* leading items in order from the write position on, advances the write
\* index by that count and touches nothing else.
C9_PushSlice ==
    [][ret'.op = "push_slice" =>
        LET elems == ret'.arg
            n == capacity(lrb)
            w == write_index(lrb)
            count == Min(Len(elems), n - Net)
            written == {(w + i - 1) % n : i \in 1..count}
        IN  /\ ret'.val = count
            /\ write_index(lrb') = (w + count) % (2 * n)
            /\ \A i \in 1..count : lrb'.storage[(w + i - 1) % n] = elems[i]
            /\ \A s \in (0..(n - 1)) \ written : lrb'.storage[s] = lrb.storage[s]
            /\ lrb'.read = lrb.read /\ lrb'.write.held = lrb.write.held
            /\ pushed' = pushed \o SubSeq(elems, 1, count)]_vars

\* A push_slice that took part of its items, across the end of storage.
C9_WitnessPartialWrapped ==
    /\ ret.op = "push_slice"
    /\ ret.val >= 2 /\ ret.val < Len(ret.arg)
    /\ (write_index(lrb) % capacity(lrb)) \in 1..(ret.val - 1)

\* C10: push_iter takes from the iterator exactly the items it stores,
\* min(items the iterator yields, remaining()) of them; the others are still
\* in the iterator.
C10_PushIter ==
    [][ret'.op = "push_iter" =>
        LET iter == ret'.arg
            count == Min(Len(iter), capacity(lrb) - Net)
        IN  /\ ret'.val = count
            /\ ret'.rest = SubSeq(iter, count + 1, Len(iter))
            /\ pushed' = pushed \o SubSeq(iter, 1, count)
            /\ (Net = capacity(lrb) => ret'.rest = iter /\ lrb' = lrb)]_vars

\* A push_iter that filled the buffer and left items in the iterator.
C10_WitnessPartial ==
    /\ ret.op = "push_iter"
    /\ ret.val > 0 /\ Len(ret.rest) > 0
    /\ Len(ret.arg) = ret.val + Len(ret.rest)

----------------------------------------------------------------------------
(* Properties of unsafe_slices and of the two threads.                     *)

\* C8: for start <= end with end - start <= N, the two slices have
\* end - start slots in all, they list the slots start mod N, ..., (end-1)
\* mod N in order, the second is empty unless the range wraps past the end
\* of storage; an empty range gives two empty slices and a range of N gives
\* every slot once.
C8_SliceProjection ==
    (probe.done /\ probe.start <= probe.end /\ probe.end - probe.start <= capacity(lrb)) =>
        LET n == capacity(lrb)
            d == probe.end - probe.start
            left == probe.out[1]
            right == probe.out[2]
            slots == chain(left, right)
        IN  /\ left.start <= left.end /\ left.end <= n
            /\ right.start <= right.end /\ right.end <= n
            /\ slice_len(left) + slice_len(right) = d
            /\ slots = [i \in 1..d |-> (probe.start + i - 1) % n]
            /\ ((probe.start % n) + d <= n) => slice_len(right) = 0
            /\ (d = 0) => (slice_len(left) = 0 /\ slice_len(right) = 0)
            /\ (d = n) => ({slots[i] : i \in 1..d} = 0..(n - 1) /\ Len(slots) = n)

\* A projected range of N slots that starts in the upper half of the index
\* domain and wraps past the end of storage.
C8_WitnessFullWrapped ==
    /\ probe.done
    /\ capacity(lrb) >= 3
    /\ probe.end - probe.start = capacity(lrb)
    /\ probe.start > capacity(lrb)
    /\ slice_len(probe.out[2]) > 0

\* The slots of the range [read, write) as the indices stand now.
TrueOccupied ==
    LET n == capacity(lrb)
        len == (2 * n + lrb.write.index - lrb.read.index) % (2 * n)
    IN  {(lrb.read.index + i) % n : i \in 0..(len - 1)}

\* C2: in every interleaving of one producer and one consumer, the slot the
\* consumer is about to read is initialized and published (it lies in
\* [read, write) and holds the oldest unread item), and the slot the producer
\* is about to write is uninitialized and outside [read, write).
C2_NoRace ==
    /\ threads.pcP = "write" =>
          /\ lrb.storage[threads.placeP] = Uninit
          /\ threads.placeP \notin TrueOccupied
    /\ threads.pcC = "read" =>
          /\ lrb.storage[threads.placeC] # Uninit
          /\ threads.placeC \in TrueOccupied
          /\ lrb.storage[threads.placeC] = Len(popped) + 1
    /\ popped = SubSeq(pushed, 1, Len(popped))

\* Both threads are in the middle of a call on a buffer whose slots have
\* been used before.
C2_WitnessBothMidCall ==
    /\ threads.pcP = "write" /\ threads.pcC = "read"
    /\ capacity(lrb) >= 2
    /\ Len(popped) >= capacity(lrb)

----------------------------------------------------------------------------
(* Properties of the calls added to the threads and to sequential use.     *)

\* C11: push_iter changes the write index once per call, after the last item
\* is in storage: while the call runs the index is what it was when the call
\* began and no slot of the batch is in [read, write); the one advance puts
\* the whole batch there.  Nothing but the commit of a call moves the index.
C11_CommitAtEnd ==
    /\ [](threads.pcP \in {"iter", "iter_advance"} =>
            /\ lrb.write.index = threads.w0P
            /\ \A j \in DOMAIN threads.doneP :
                  /\ threads.doneP[j] \notin TrueOccupied
                  /\ lrb.storage[threads.doneP[j]] = threads.argP[j]
            /\ Len(threads.doneP) = threads.countP)
    /\ [][(threads.pcP = "iter_advance" /\ threads'.pcP = "idle") =>
            /\ lrb'.write.index = (threads.w0P + threads.countP) % (2 * capacity(lrb))
            /\ lrb'.storage = lrb.storage
            /\ \A j \in DOMAIN threads.doneP :
                  LET n == capacity(lrb)
                      len == (2 * n + lrb'.write.index - lrb'.read.index) % (2 * n)
                  IN  threads.doneP[j] \in {(lrb'.read.index + i) % n : i \in 0..(len - 1)}
            /\ ret'.val = threads.countP]_vars
    /\ [][lrb'.write.index # lrb.write.index =>
            threads.pcP \in {"advance", "iter_advance"}]_vars

\* A push_iter that has written two items and not committed them, while the
\* consumer is in the middle of a pop.
C11_WitnessMidBatch ==
    /\ threads.pcP = "iter" /\ threads.countP >= 2
    /\ threads.pcC \in {"slices", "read"}
    /\ Len(popped) > 0

\* The length of the left vacant slice, from the number of items held.
LeftVacant ==
    LET n == capacity(lrb)
    IN  Min(n - Net, n - (lrb.write.index % n))

\* C12: read_from hands the reader the left vacant slice cut to count; when
\* the reader fails, the error comes back and the write index and the
\* occupied items are as before; when it reports n bytes, n is at most
\* min(count, left length), those bytes are appended and the write index
\* advances by n; on a full buffer a reader that does not fail gives Ok(0).
C12_ReadFrom ==
    [][ret'.op = "read_from" =>
        LET n == capacity(lrb)
            w == lrb.write.index
            cnt == Min(IF ret'.count = <<>> THEN LeftVacant ELSE ret'.count[1], LeftVacant)
            offered == {(w % n) + i - 1 : i \in 1..cnt}
        IN  /\ \A s \in 0..(n - 1) : lrb'.storage[s] # lrb.storage[s] => s \in offered
            /\ \A s \in TrueOccupied : lrb'.storage[s] = lrb.storage[s]
            /\ lrb'.read = lrb.read /\ lrb'.write.held = lrb.write.held
            /\ ret'.fail =>
                  /\ ~ret'.ok
                  /\ lrb'.write = lrb.write
                  /\ occupied_len(lrb') = occupied_len(lrb)
                  /\ pushed' = pushed
            /\ ret'.over => (~ret'.ok /\ ret'.val = Panicked /\ lrb'.write = lrb.write)
            /\ (~ret'.fail /\ ~ret'.over) =>
                  /\ ret'.ok
                  /\ ret'.val = Min(Len(ret'.arg), cnt)
                  /\ lrb'.write.index = (w + ret'.val) % (2 * n)
                  /\ \A i \in 1..ret'.val : lrb'.storage[(w + i - 1) % n] = ret'.arg[i]
                  /\ pushed' = pushed \o SubSeq(ret'.arg, 1, ret'.val)
                  /\ (Net = n => ret'.val = 0)]_vars

\* A reader failed after it wrote into the slice of a buffer that holds
\* items.
C12_WitnessReaderFailed ==
    /\ ret.op = "read_from" /\ ret.fail /\ ~ret.ok
    /\ Net > 0 /\ Net < capacity(lrb)
    /\ Len(ret.arg) > 0
    /\ \E s \in DOMAIN lrb.storage : s \notin TrueOccupied /\ lrb.storage[s] # Uninit

\* The vacant slots before a step, as a count.
VacantBefore == capacity(lrb) - Net

\* C13: io::Write::write returns the number of bytes accepted, the smaller
\* of the input length and the room left, and those bytes are appended;
\* on a full buffer a non-empty input gives would-block and the ring is as
\* it was; an empty input gives Ok(0); flush changes nothing.
C13_WriteAdapter ==
    [][/\ ret'.op = "write" =>
            /\ ret'.ok <=> ~(VacantBefore = 0 /\ ret'.arg # <<>>)
            /\ ret'.ok =>
                  /\ ret'.val = Min(Len(ret'.arg), VacantBefore)
                  /\ pushed' = pushed \o SubSeq(ret'.arg, 1, ret'.val)
                  /\ occupied_len(lrb') = occupied_len(lrb) + ret'.val
            /\ ~ret'.ok => (ret'.val = WouldBlock /\ lrb' = lrb /\ pushed' = pushed)
            /\ ret'.arg = <<>> => (ret'.ok /\ ret'.val = 0 /\ lrb' = lrb)
       /\ ret'.op = "flush" =>
            (ret'.ok /\ lrb' = lrb /\ rb' = rb /\ pushed' = pushed /\ popped' = popped)]_vars

\* A write of several bytes to a full buffer, whose items straddle the end
\* of storage, gave would-block.
C13_WitnessWouldBlock ==
    /\ ret.op = "write" /\ ~ret.ok /\ ret.val = WouldBlock
    /\ Len(ret.arg) > 1
    /\ is_full(lrb)
    /\ capacity(lrb) >= 2
    /\ slice_len(occupied_slices(lrb)[2]) > 0

\* C19: write_str returns Ok exactly when the whole string fitted in the
\* room left; on Err the first bytes of the string, as many as there was
\* room for, have been appended and stay; either way the length is at most
\* the capacity and the length and the room left add up to the capacity.
C19_WriteStr ==
    [][ret'.op = "write_str" =>
        LET fit == Min(Len(ret'.arg), VacantBefore)
        IN  /\ ret'.ok <=> (Len(ret'.arg) <= VacantBefore)
            /\ pushed' = pushed \o SubSeq(ret'.arg, 1, fit)
            /\ occupied_len(lrb') = occupied_len(lrb) + fit
            /\ \A i \in 1..fit :
                  lrb'.storage[(write_index(lrb) + i - 1) % capacity(lrb)] = ret'.arg[i]
            /\ ~ret'.ok => is_full(lrb')
            /\ occupied_len(lrb') <= capacity(lrb')
            /\ occupied_len(lrb') + vacant_len(lrb') = capacity(lrb')]_vars

\* write_str gave Err after it appended a part of the string, across the
\* end of storage.
C19_WitnessPartialErr ==
    /\ ret.op = "write_str" /\ ~ret.ok
    /\ \E j \in 2..(Len(ret.arg) - 1) : pushed[Len(pushed)] = ret.arg[j]
    /\ is_full(lrb)
    /\ Len(popped) > 0
    /\ slice_len(occupied_slices(lrb)[2]) > 0

\* C14: in every reachable state vacant_slices gives exactly the vacant
\* slots: the two lengths add up to remaining(), the slots are write mod N
\* and its successors in circular order, and none of them lies in the
\* occupied range [read, write).
C14_VacantSlices ==
    LET n == capacity(lrb)
        left == vacant_slices(lrb)[1]
        right == vacant_slices(lrb)[2]
        slots == chain(left, right)
    IN  /\ left.start <= left.end /\ left.end <= n
        /\ right.start <= right.end /\ right.end <= n
        /\ slice_len(left) + slice_len(right) = vacant_len(lrb)
        /\ (alive /\ threads = NoThreads) => Len(slots) = n - Net
        /\ slice_len(left) > 0 => left.start = write_index(lrb) % n
        /\ slots = [i \in 1..Len(slots) |-> (write_index(lrb) + i - 1) % n]
        /\ \A i \in 1..Len(slots) : slots[i] \notin TrueOccupied
        /\ {slots[i] : i \in 1..Len(slots)} \cup TrueOccupied = 0..(n - 1)

\* The write index has wrapped in the doubled domain and is numerically
\* below the read index, read + capacity is beyond the doubled domain, and
\* there are both items and room.
C14_WitnessWriteBelowRead ==
    /\ alive
    /\ write_index(lrb) < read_index(lrb)
    /\ read_index(lrb) + capacity(lrb) > modulus(lrb)
    /\ Net > 1
    /\ slice_len(vacant_slices(lrb)[1]) > 1

\* The call of the last step, made on a buffer `self`.
SamePush(self) ==
    CASE ret'.op = "try_push" -> try_push(self, ret'.arg[1])
      [] ret'.op = "push_slice" -> push_slice(self, ret'.arg)
      [] ret'.op = "push_iter" -> push_iter(self, ret'.arg)

\* C15: a push to a buffer whose consumer was dropped stores and advances
\* as it does with a live consumer: on a buffer that is not full it accepts
\* min(offered, room) items, and what any push returns and leaves in the
\* indices and the storage is the same whatever the two held flags are.
C15_PushIgnoresClosed ==
    [][ret'.op \in {"try_push", "push_slice", "push_iter"} =>
        /\ (is_closed(lrb) /\ ~is_full(lrb)) =>
              LET count == Min(Len(ret'.arg), VacantBefore)
              IN  /\ ret'.ok
                  /\ pushed' = pushed \o SubSeq(ret'.arg, 1, count)
                  /\ write_index(lrb') = (write_index(lrb) + count) % modulus(lrb)
                  /\ \A i \in 1..count :
                        lrb'.storage[(write_index(lrb) + i - 1) % capacity(lrb)] = ret'.arg[i]
        /\ \A rh \in BOOLEAN, wh \in BOOLEAN :
              LET other == [lrb EXCEPT !.read.held = rh, !.write.held = wh]
                  res == SamePush(other)
              IN  /\ res.ok = ret'.ok /\ res.val = ret'.val /\ res.rest = ret'.rest
                  /\ res.self.storage = lrb'.storage
                  /\ write_index(res.self) = write_index(lrb')
                  /\ read_index(res.self) = read_index(lrb')]_vars

\* A bulk push was accepted, across the end of storage, after the Consumer
\* handle was dropped.
C15_WitnessPushAfterDisconnect ==
    /\ prodLive /\ ~consLive /\ handles # "none"
    /\ is_closed(lrb)
    /\ ret.op \in {"push_slice", "push_iter"} /\ ret.val > 1
    /\ Len(popped) > 0
    /\ slice_len(occupied_slices(lrb)[2]) > 0

\* The buffers that the producer operations can leave behind when called
\* on self, for every input within the bounds.
ProducerCalls(self) ==
    LET readers == {[bytes |-> Offer(k), fail |-> f[1], over |-> f[2]] :
                       k \in 0..Room, f \in {<<FALSE, FALSE>>, <<TRUE, FALSE>>, <<FALSE, TRUE>>}}
        counts == {<<>>} \cup {<<c>> : c \in 0..MaxBatch}
    IN  {advance_write_index(self, c) : c \in 0..vacant_len(self)}
        \cup {try_push(self, Len(pushed) + 1).self}
        \cup {push_iter(self, Offer(k)).self : k \in 0..Room}
        \cup {push_slice(self, Offer(k)).self : k \in 0..Room}
        \cup {read_from(self, rd, c).self : rd \in readers, c \in counts}
        \cup {write(self, Offer(k)).self : k \in 0..Room}
        \cup {write_str(self, Offer(k)).self : k \in 0..Room}

\* The same for the consumer operations.
ConsumerCalls(self) ==
    {advance_read_index(self, c) : c \in 0..occupied_len(self)}
    \cup {try_pop(self).self, clear(self).self}

\* What a producer operation may change between a and b: the write index
\* and slots outside [read, write).
ProducerFrame(a, b) ==
    /\ b.read = a.read
    /\ b.write.held = a.write.held
    /\ DOMAIN b.storage = DOMAIN a.storage
    /\ \A s \in DOMAIN a.storage :
          b.storage[s] # a.storage[s] =>
             s \notin {(a.read.index + i) % capacity(a) : i \in 0..(occupied_len(a) - 1)}

\* What a consumer operation may change: the read index and slots.
ConsumerFrame(a, b) ==
    /\ b.write = a.write
    /\ b.read.held = a.read.held
    /\ DOMAIN b.storage = DOMAIN a.storage

\* C16: every producer operation leaves the read index and both held flags
\* as they were and changes only vacant slots; every consumer operation
\* leaves the write index and both held flags as they were; a held flag
\* changes only in a step that creates or drops a handle.
C16_SingleWriter ==
    /\ [](alive => /\ \A b \in ProducerCalls(lrb) : ProducerFrame(lrb, b)
                   /\ \A b \in ConsumerCalls(lrb) : ConsumerFrame(lrb, b))
    /\ [][/\ (ret'.op \in {"try_push", "push_slice", "push_iter"}) => ProducerFrame(lrb, lrb')
          /\ (ret'.op = "try_pop") => ConsumerFrame(lrb, lrb')
          /\ (lrb'.read.held # lrb.read.held \/ lrb'.write.held # lrb.write.held) =>
                (ret'.op \in {"split", "split_ref", "drop_prod", "drop_cons"})]_vars

\* A bulk push stored items while both handles live and both flags are
\* set, next to items not yet popped.
C16_WitnessPushWhileHeld ==
    /\ ret.op \in {"push_slice", "push_iter"} /\ ret.val > 1
    /\ read_is_held(lrb) /\ write_is_held(lrb)
    /\ Net > ret.val
    /\ Len(popped) > 0

\* C17: advance_write_index(count) sets the write index to
\* (write + count) mod 2N; in every reachable state both indices are in
\* [0, 2N) and (write - read) mod 2N is at most N and is the number of
\* items held; a push stores at slot write mod N and a pop takes from slot
\* read mod N.
C17_DoubledIndex ==
    /\ [](LET n == capacity(lrb)
              w == write_index(lrb)
              r == read_index(lrb)
          IN  /\ w \in 0..(2 * n - 1) /\ r \in 0..(2 * n - 1)
              /\ (2 * n + w - r) % (2 * n) <= n
              /\ alive => (2 * n + w - r) % (2 * n) = Net
              /\ \A c \in 0..(n - Net) :
                    write_index(advance_write_index(lrb, c)) = (w + c) % (2 * n))
    /\ [][LET n == capacity(lrb)
              w == write_index(lrb)
              r == read_index(lrb)
          IN  /\ (ret'.op \in {"try_push", "push_slice", "push_iter"}) =>
                   LET count == Len(pushed') - Len(pushed)
                   IN  /\ write_index(lrb') = (w + count) % (2 * n)
                       /\ \A i \in 1..count :
                             lrb'.storage[(w + i - 1) % n] = pushed'[Len(pushed) + i]
              /\ (ret'.op = "try_pop" /\ ret'.ok) =>
                   /\ ret'.val = lrb.storage[r % n]
                   /\ read_index(lrb') = (r + 1) % (2 * n)]_vars

\* A bulk push has taken the write index past 2N - 1 and back to the start
\* of the doubled domain, while items are held.
C17_WitnessWrappedDomain ==
    /\ ret.op = "push_slice" /\ ret.val > 1
    /\ write_index(lrb) < ret.val
    /\ Len(pushed) >= modulus(lrb)
    /\ read_index(lrb) > capacity(lrb)
    /\ capacity(lrb) >= 3

\* C18: the reserved-slot buffer of N + 1 slots and the doubled-index
\* buffer of N slots, given the same pushes and pops, accept and reject
\* the same pushes, return the same item from every pop, and agree on
\* capacity, len, remaining, is_empty and is_full after every call.
C18_SchemesEquivalent ==
    alive =>
        /\ data_len(rb) = capacity(lrb) + 1
        /\ rb.head \in 0..capacity(lrb) /\ rb.tail \in 0..capacity(lrb)
        /\ read_index(lrb) \in 0..(2 * capacity(lrb) - 1)
        /\ write_index(lrb) \in 0..(2 * capacity(lrb) - 1)
        /\ rbRet.op = ret.op
        /\ (ret.op \in {"try_push", "try_pop"}) =>
              (rbRet.ok = ret.ok /\ rbRet.val = ret.val /\ rbRet.arg = ret.arg)
        /\ (ret.op \in {"push_slice", "push_iter"}) => rbRet.val = ret.val
        /\ rbPushed = pushed
        /\ rbPopped = popped
        /\ RingBuffer_capacity(rb) = capacity(lrb)
        /\ RingBuffer_len(rb) = occupied_len(lrb)
        /\ RingBuffer_remaining(rb) = vacant_len(lrb)
        /\ RingBuffer_is_empty(rb) <=> is_empty(lrb)
        /\ RingBuffer_is_full(rb) <=> is_full(lrb)

\* Both buffers rejected the same push when full, each with its indices
\* wrapped, after both returned the same items from pops.
C18_WitnessBothRejectWrapped ==
    /\ alive
    /\ ret.op = "try_push" /\ ~ret.ok /\ ~rbRet.ok
    /\ capacity(lrb) >= 3
    /\ rb.tail < rb.head
    /\ write_index(lrb) < read_index(lrb)
    /\ Len(popped) > 1 /\ rbPopped = popped

\* C20: a buffer of capacity N >= 1 is never both full and empty, so in
\* every reachable state a try_push or a pop is accepted; with producer
\* and consumer each scheduled again and again, a rejected try_push is
\* followed by an accepted one, and every accepted item is popped in the
\* end.
C20_PollingProgress ==
    /\ [](/\ ~(is_full(lrb) /\ is_empty(lrb))
          /\ ~(RingBuffer_is_full(rb) /\ RingBuffer_is_empty(rb))
          /\ try_push(lrb, Len(pushed) + 1).ok \/ try_pop(lrb).ok
          /\ ArcProducer_push(rb, Len(pushed) + 1).ok \/ ArcConsumer_pop(rb).ok)
    /\ \A k \in 0..(MaxPush - 1) :
          (ret.op = "try_push" /\ ~ret.ok /\ Len(pushed) = k)
             ~> (ret.op = "try_push" /\ ret.ok /\ Len(pushed) = k + 1)
    /\ \A k \in 1..MaxPush :
          (Len(pushed) >= k) ~> (Len(popped) >= k /\ popped[k] = pushed[k])

\* A try_push has just been rejected by a full buffer whose items straddle
\* the end of storage; the producer will call again.
C20_WitnessRejectedRetry ==
    /\ ret.op = "try_push" /\ ~ret.ok
    /\ is_full(lrb) /\ RingBuffer_is_full(rb)
    /\ Len(pushed) < MaxPush
    /\ Len(popped) > 0
    /\ capacity(lrb) >= 2
    /\ slice_len(occupied_slices(lrb)[2]) > 0

====
